---- MODULE Spec2Model ----
(***************************************************************************)
(* A model of clustercheck.py: the Checker (setup_dns, load_plugins,       *)
(* check_all, report, check), the Plugin registry filled by                *)
(* Plugin.__init_subclass__, and the resolver functions that setup_dns     *)
(* installs over socket.getaddrinfo / gethostbyname / gethostbyname_ex.     *)
(*                                                                         *)
(* Python values are modelled as follows.                                  *)
(*   str            a TLA+ string; host names are sequences of characters  *)
(*                  so that lower() and rstrip(".") are computed            *)
(*   None           the string None                                        *)
(*   dict           a set of <<key, value>> pairs with distinct keys;      *)
(*                  Config.dns_map, whose iteration order matters, is a    *)
(*                  sequence of <<src, dest>> pairs                        *)
(*   list           a sequence                                             *)
(*   object ref     Report.check holds the position of the CheckConfig in  *)
(*                  Config.checks (the object g of the loop)               *)
(* Report.time (time.time()) is not modelled.                              *)
(***************************************************************************)
EXTENDS Integers, Sequences, FiniteSets, TLC

VARIABLES
    config,          \* Checker.config: [dns_map, checks, plugins]
    reports,         \* Checker.reports
    results,         \* Checker.results
    plugins,         \* Checker.plugins: "own" (the {} of __init__) or "registry" (Plugin._plugins_)
    Plugin_plugins,  \* Plugin._plugins_, process-wide: dict name -> plugin instance
    sys_modules,     \* libs already imported by name (import_module does not run them again)
    socket_funcs,    \* the closures stacked on the socket functions: the dns_map of each new_func
    pc,              \* the method of Checker being executed, "idle" between calls
    caller,          \* the method the user called last
    idx,             \* position of the running for loop (1-based)
    raised,          \* the exception that left the last call, or None
    returned,        \* what check() returned: [set, val]
    netops,          \* network operations performed: <<position of the check, operation>>
    invoked,         \* Plugin.check calls performed: [check, plugin, url, args]
    runStart,        \* len(Checker.reports) when the running check_all began
    dispatched,      \* number of checks the running call has dispatched
    script,          \* the calls the user's program has still to make
    observed,        \* observed[k]: what the outside world answered for reports[k]
    searched,        \* positions of the checks whose expect_contains went through re.search
    lookup           \* last name resolved through the socket functions: [installs, host, addr]

vars == <<config, reports, results, plugins, Plugin_plugins, sys_modules, socket_funcs,
          pc, caller, idx, raised, returned, netops, invoked, runStart, dispatched,
          script, observed, searched, lookup>>

-----------------------------------------------------------------------------
(* Bounds of the model *)

MaxChecks == 2
MaxPlugins == 1
MaxInstalls == 2
MaxDnsEntries == 2
MaxHostLen == 2

-----------------------------------------------------------------------------
(* Python values *)

None == "None"

\* truthiness of an optional str: None and "" are falsy
StrTruthy(s) == s /= None /\ s /= ""

\* dict.get(k) on a dict of <<key, value>> pairs; None when k is absent
DictHas(d, k) == \E p \in d : p[1] = k
DictGet(d, k) == IF DictHas(d, k) THEN (CHOOSE p \in d : p[1] = k)[2] ELSE None
\* d[k] = v
DictPut(d, k, v) == {p \in d : p[1] /= k} \cup {<<k, v>>}

\* bool(x) for the values handed to Checker.report
Truthy == {"True", "Match", "'ok'", "1"}
Bool(x) == x \in Truthy

\* a == b as a Python bool
PyEq(a, b) == IF a = b THEN "True" ELSE "False"

\* Report.msg is whatever object report() was given: a str, or a bound method
Str(s) == [type |-> "str", val |-> s]
BoundMethod(cls) == [type |-> "method", val |-> cls]

\* repr(ex) of the exceptions of the model
Repr(ex) ==
    CASE ex = "ConnectionError" -> "ConnectionError('connection refused')"
      [] ex = "re.error" -> "error('missing ), unterminated subpattern at position 0')"
      [] OTHER -> ex

-----------------------------------------------------------------------------
(* Host names and the socket functions *)

Chars == {"a", "A", "b", "."}

\* host names: the strings of 1..MaxHostLen characters
Hostnames == UNION {[1..n -> Chars] : n \in 1..MaxHostLen}

\* str.lower()
LowerChar(c) == IF c = "A" THEN "a" ELSE c
Lower(s) == [k \in 1..Len(s) |-> LowerChar(s[k])]

\* str.rstrip("."): every trailing "." is removed
RECURSIVE RStrip(_)
RStrip(s) ==
    IF Len(s) > 0 /\ s[Len(s)] = "." THEN RStrip(SubSeq(s, 1, Len(s) - 1)) ELSE s

\* The socket function before any install (the first prv_func).  The system
\* resolver compares names without regard to case and takes one trailing dot
\* as the root label; an address is represented by the name it belongs to.
socket_gethostbyname(host) ==
    Lower(IF Len(host) > 0 /\ host[Len(host)] = "."
          THEN SubSeq(host, 1, Len(host) - 1) ELSE host)

\* the dns_map built by setup_dns from the first n items of Config.dns_map
RECURSIVE setup_dns_map(_, _)
setup_dns_map(items, n) ==
    IF n = 0 THEN {}
    ELSE DictPut(setup_dns_map(items, n - 1), RStrip(Lower(items[n][1])), items[n][2])

\* new_func(host) of the closure on top of the stack funcs; funcs[k] is the
\* dns_map captured by the k-th install and prv_func is the closure below it
RECURSIVE new_func(_, _)
new_func(funcs, host) ==
    IF funcs = <<>> THEN socket_gethostbyname(host)
    ELSE LET dns_map == funcs[Len(funcs)]
             prv == SubSeq(funcs, 1, Len(funcs) - 1)
             key == RStrip(host)
         IN  IF DictHas(dns_map, key) /\ DictGet(dns_map, key) /= <<>>
             THEN new_func(prv, DictGet(dns_map, key))
             ELSE new_func(prv, host)

-----------------------------------------------------------------------------
(* Configurations *)

\* the default expect_status
HTTP_OK == 200

\* the status codes a server of the model answers with
StatusCodes == {HTTP_OK, 404}

\* urlparse(url).scheme for the URLs of the model
urlparse_scheme(url) ==
    CASE url = "https://www.google.com/search?q=atakama" -> "https"
      [] url = "http://0.0.0.0/" -> "http"
      [] url = "HTTP://0.0.0.0/" -> "http"
      [] url = "wss://dev-relay.vidaprivacy.io/" -> "wss"
      [] url = "ftp://example.com/pub" -> "ftp"

\* CheckConfig(url, args, plugin, expect_status, expect_contains)
CheckConfig(url, args, plugin, expect_status, expect_contains) ==
    [url |-> url, args |-> args, plugin |-> plugin,
     expect_status |-> expect_status, expect_contains |-> expect_contains]

\* the check descriptors a configuration is drawn from
CheckConfigs ==
    { CheckConfig("https://www.google.com/search?q=atakama", {}, None, HTTP_OK, "atakama.com"),
      CheckConfig("http://0.0.0.0/", {<<"method", "POST">>}, None, HTTP_OK, None),
      CheckConfig("HTTP://0.0.0.0/", {<<"method", "">>}, "", 404, ""),
      CheckConfig("http://0.0.0.0/", {<<"timeout", "5">>}, None, HTTP_OK, "("),
      CheckConfig("wss://dev-relay.vidaprivacy.io/", {}, None, HTTP_OK, None),
      CheckConfig("ftp://example.com/pub", {}, None, HTTP_OK, None),
      CheckConfig("wss://dev-relay.vidaprivacy.io/", {}, "MyCheck", HTTP_OK, None) }

\* PluginConfig(lib, name, args)
PluginConfig(lib, name, args) == [lib |-> lib, name |-> name, args |-> args]

\* What the libs of the model are to importlib:
\*   "module"        import_module(lib) runs the module, once per process
\*   "file"          import_module raises ImportError; the file at lib is run
\*   "missing"       import_module raises ImportError; there is no such file
LibKind(lib) ==
    CASE lib = "checks.mycheck" -> "module"
      [] lib = "example_plugin.py" -> "file"
      [] lib = "other_plugin.py" -> "file"
      [] lib = "missing_plugin.py" -> "missing"

\* the Plugin subclasses a lib defines, by cls.name()
LibClasses(lib) ==
    CASE lib = "checks.mycheck" -> {"MyCheck"}
      [] lib = "example_plugin.py" -> {"MyCheck"}
      [] lib = "other_plugin.py" -> {"OtherCheck"}
      [] OTHER -> {}

PluginConfigs ==
    { PluginConfig("example_plugin.py", "MyCheck", {}),
      PluginConfig("checks.mycheck", "MyCheck", {}),
      PluginConfig("other_plugin.py", "MyCheck", {}),
      PluginConfig("missing_plugin.py", "MyCheck", {}) }

SeqsUpTo(S, n) == UNION {[1..k -> S] : k \in 0..n}

\* Config(dns_map, plugins, checks)
Config(dns_map, plugins_, checks) ==
    [dns_map |-> dns_map, plugins |-> plugins_, checks |-> checks]

\* the dns_map of the test suite, in the characters of the model
TestDnsMap == << << <<"A", ".">>, <<"b">> >> >>

\* the dns_maps of the resolver model: up to MaxDnsEntries items with distinct keys
DnsTargets == {<<"a">>, <<"b">>}
DnsMaps ==
    {d \in SeqsUpTo(Hostnames \X DnsTargets, MaxDnsEntries) :
        \A m, n \in 1..Len(d) : m /= n => d[m][1] /= d[n][1]}

-----------------------------------------------------------------------------
(* The outside world *)

\* response bodies, and re.search(pattern, text) on them
Bodies == {"<a href=atakama.com>", "<html></html>"}
re_search(pattern, text) ==
    CASE pattern = "(" -> "raise"
      [] pattern = "" -> "Match"
      [] pattern = "atakama.com" -> IF text = "<a href=atakama.com>" THEN "Match" ELSE "None"

\* what requests.request does: a response, or an exception
HttpOutcomes ==
    {[raise |-> "ConnectionError", status_code |-> 0, text |-> ""]}
    \cup {[raise |-> None, status_code |-> c, text |-> t] :
             c \in StatusCodes, t \in Bodies}

\* what the websocket does: create_connection raises, ping raises, or the
\* value of ws.connected after the ping
WsOutcomes == {"create_connection raises", "ping raises", "True", "False"}

\* what Plugin.check does: a return value, or an exception
PluginOutcomes == {"True", "'ok'", "False", "None", "raise"}

-----------------------------------------------------------------------------
(* Checker *)

\* Checker.__init__, in a fresh process
InitChecker ==
    /\ reports = <<>>
    /\ results = <<>>
    /\ plugins = "own"
    /\ Plugin_plugins = {}
    /\ sys_modules = {}
    /\ socket_funcs = <<>>
    /\ pc = "idle"
    /\ caller = None
    /\ idx = 1
    /\ raised = None
    /\ returned = [set |-> FALSE, val |-> <<>>]
    /\ netops = <<>>
    /\ invoked = <<>>
    /\ runStart = 0
    /\ dispatched = 0
    /\ searched = {}
    /\ observed = <<>>
    /\ lookup = [installs |-> 0, host |-> <<>>, addr |-> <<>>]

\* The programs that use a Checker: main() calls check(); the test suite calls
\* check_all alone, load_plugins and then check_all, and setup_dns alone.
Programs ==
    { <<"check">>, <<"check_all">>, <<"load_plugins", "check_all">>, <<"setup_dns">>,
      <<"setup_dns", "check">> }

Init ==
    /\ script \in Programs
    /\ config \in {Config(TestDnsMap, p, c) :
                      p \in SeqsUpTo(PluginConfigs, MaxPlugins),
                      c \in SeqsUpTo(CheckConfigs, MaxChecks)}
    /\ InitChecker

\* The program makes its next call, unless an exception ended it.  check()
\* starts with setup_dns; After takes it through load_plugins and check_all.
call ==
    /\ pc = "idle"
    /\ raised = None
    /\ script /= <<>>
    /\ script' = Tail(script)
    /\ caller' = Head(script)
    /\ pc' = IF Head(script) = "check" THEN "setup_dns" ELSE Head(script)
    /\ idx' = 1
    /\ returned' = [set |-> FALSE, val |-> <<>>]
    /\ runStart' = Len(reports)
    /\ dispatched' = 0
    /\ UNCHANGED <<config, reports, results, plugins, Plugin_plugins, sys_modules,
                   socket_funcs, raised, netops, invoked, observed, searched, lookup>>

\* where control goes when method m returns: to the next statement of check(),
\* or back to the user
After(m) ==
    IF caller = "check"
    THEN CASE m = "setup_dns" -> "load_plugins"
           [] m = "load_plugins" -> "check_all"
           [] m = "check_all" -> "return"
    ELSE "idle"

\* an exception leaves the running method, and check() if it is the caller
Raise(ex) ==
    /\ pc' = "idle"
    /\ raised' = ex

\* Checker.setup_dns
setup_dns ==
    /\ pc = "setup_dns"
    /\ socket_funcs' = Append(socket_funcs, setup_dns_map(config.dns_map, Len(config.dns_map)))
    /\ pc' = After("setup_dns")
    /\ UNCHANGED <<config, reports, results, plugins, Plugin_plugins, sys_modules,
                   caller, idx, raised, returned, netops, invoked, runStart,
                   dispatched, script, observed, searched, lookup>>

\* running the code of lib: Plugin.__init_subclass__ stores an instance of
\* every Plugin subclass it defines under cls.name()
exec_module(registry, lib) ==
    {e \in registry : e[1] \notin LibClasses(lib)}
    \cup {<<c, [cls |-> c, lib |-> lib]>> : c \in LibClasses(lib)}

\* Checker.load_plugin(p), one turn of the loop of load_plugins
load_plugin ==
    /\ pc = "load_plugins"
    /\ idx <= Len(config.plugins)
    /\ LET p == config.plugins[idx]
           kind == LibKind(p.lib)
       IN  \/ /\ kind = "module"
              /\ sys_modules' = sys_modules \cup {p.lib}
              /\ Plugin_plugins' = IF p.lib \in sys_modules THEN Plugin_plugins
                                   ELSE exec_module(Plugin_plugins, p.lib)
              /\ idx' = idx + 1
              /\ UNCHANGED <<pc, raised>>
           \/ /\ kind = "file"
              /\ Plugin_plugins' = exec_module(Plugin_plugins, p.lib)
              /\ idx' = idx + 1
              /\ UNCHANGED <<pc, raised, sys_modules>>
           \/ /\ kind = "missing"
              /\ Raise("FileNotFoundError")
              /\ UNCHANGED <<Plugin_plugins, sys_modules, idx>>
    /\ UNCHANGED <<config, reports, results, plugins, socket_funcs, caller, returned,
                   netops, invoked, runStart, dispatched, script, observed, searched, lookup>>

\* the end of load_plugins: self.plugins = Plugin._plugins_
load_plugins ==
    /\ pc = "load_plugins"
    /\ idx > Len(config.plugins)
    /\ plugins' = "registry"
    /\ pc' = After("load_plugins")
    /\ idx' = 1
    /\ UNCHANGED <<config, reports, results, Plugin_plugins, sys_modules, socket_funcs,
                   caller, raised, returned, netops, invoked, runStart, dispatched,
                   script, observed, searched, lookup>>

\* self.plugins
self_plugins == IF plugins = "registry" THEN Plugin_plugins ELSE {}

\* Checker.report(ok, msg, check)
report(ok, msg, check_) ==
    reports' = Append(reports, [ok |-> Bool(ok), msg |-> msg, check |-> check_])

\* the answer of the outside world that led to the report being appended
Observe(answer) == observed' = Append(observed, answer)

\* Route with the http(s) branch taken by every scheme that is not ws or wss
Route_HttpByDefault(g) ==
    IF StrTruthy(g.plugin) THEN "plugin"
    ELSE IF urlparse_scheme(g.url) \in {"ws", "wss"} THEN "ws"
    ELSE "http"

\* the branch of check_all that g takes
Route(g) ==
    IF StrTruthy(g.plugin) THEN "plugin"
    ELSE IF urlparse_scheme(g.url) \in {"http", "https"} THEN "http"
    ELSE IF urlparse_scheme(g.url) \in {"ws", "wss"} THEN "ws"
    ELSE "invalid"

\* the loop of check_all is at g = config.checks[idx], which takes branch r
AtCheck(r) ==
    /\ pc = "check_all"
    /\ idx <= Len(config.checks)
    /\ Route(config.checks[idx]) = r
    /\ dispatched' = dispatched + 1

\* check_all, the branch "if g.plugin"
check_plugin ==
    /\ AtCheck("plugin")
    /\ LET g == config.checks[idx]
       IN  IF ~DictHas(self_plugins, g.plugin)
           THEN /\ Raise("KeyError")
                /\ UNCHANGED <<reports, observed, invoked, idx>>
           ELSE LET p == DictGet(self_plugins, g.plugin)
                IN  /\ invoked' = Append(invoked, [check |-> idx, plugin |-> p,
                                                   url |-> g.url, args |-> g.args])
                    /\ \E out \in PluginOutcomes :
                          IF out = "raise"
                          THEN /\ Raise("PluginError")
                               /\ UNCHANGED <<reports, observed, idx>>
                          ELSE /\ report(out, BoundMethod(p.cls), idx)
                               /\ Observe(out)
                               /\ idx' = idx + 1
                               /\ UNCHANGED <<pc, raised>>
    /\ UNCHANGED <<config, results, plugins, Plugin_plugins, sys_modules, socket_funcs,
                   caller, returned, netops, runStart, script, searched, lookup>>

\* g.args after "if not g.args.get('method'): g.args['method'] = 'GET'"
default_method(args) ==
    IF ~StrTruthy(DictGet(args, "method")) THEN DictPut(args, "method", "GET") ELSE args

\* http_except reporting the status label in place of repr(ex)
http_except_StatusLabel(ex, check_) == report("False", Str("http(s) status"), check_)

\* the except clause of the http branch
http_except(ex, check_) == report("False", Str(Repr(ex)), check_)

\* http_evaluate without the "ok and" of "if ok and g.expect_contains"
http_evaluate_NoStatusGuard(g, resp) ==
    LET ok == PyEq(resp.status_code, g.expect_status)
    IN  IF StrTruthy(g.expect_contains)
        THEN IF re_search(g.expect_contains, resp.text) = "raise"
             THEN [searched |-> TRUE, raise |-> "re.error", ok |-> "False", msg |-> ""]
             ELSE [searched |-> TRUE, raise |-> None,
                   ok |-> re_search(g.expect_contains, resp.text),
                   msg |-> "http(s) text contains"]
        ELSE [searched |-> FALSE, raise |-> None, ok |-> ok, msg |-> "http(s) status"]

\* The statements of the try block after requests.request returned resp: the
\* report they make (ok, msg), whether re.search was called, and the
\* exception they raise, if any.
http_evaluate(g, resp) ==
    LET ok == PyEq(resp.status_code, g.expect_status)
    IN  IF Bool(ok) /\ StrTruthy(g.expect_contains)
        THEN IF re_search(g.expect_contains, resp.text) = "raise"
             THEN [searched |-> TRUE, raise |-> "re.error", ok |-> "False", msg |-> ""]
             ELSE [searched |-> TRUE, raise |-> None,
                   ok |-> re_search(g.expect_contains, resp.text),
                   msg |-> "http(s) text contains"]
        ELSE [searched |-> FALSE, raise |-> None, ok |-> ok, msg |-> "http(s) status"]

\* check_all, the branch "elif uri.scheme in ('http', 'https')"
check_http ==
    /\ AtCheck("http")
    /\ LET g == config.checks[idx]
       IN  /\ config' = [config EXCEPT !.checks[idx].args = default_method(g.args)]
           /\ netops' = Append(netops, <<idx, "requests.request">>)
           /\ \E resp \in HttpOutcomes :
                 /\ Observe(resp)
                 /\ IF resp.raise /= None
                    THEN /\ http_except(resp.raise, idx)
                         /\ UNCHANGED searched
                    ELSE LET e == http_evaluate(g, resp)
                         IN  /\ searched' = IF e.searched THEN searched \cup {idx}
                                            ELSE searched
                             /\ IF e.raise /= None
                                THEN http_except(e.raise, idx)
                                ELSE report(e.ok, Str(e.msg), idx)
    /\ idx' = idx + 1
    /\ UNCHANGED <<results, plugins, Plugin_plugins, sys_modules, socket_funcs, pc,
                   caller, raised, returned, invoked, runStart, script, lookup>>

\* check_all, the branch "elif uri.scheme in ('ws', 'wss')"
check_ws ==
    /\ AtCheck("ws")
    /\ \E out \in WsOutcomes :
          CASE out = "create_connection raises" ->
                  /\ netops' = Append(netops, <<idx, "websocket.create_connection">>)
                  /\ Raise("WebSocketException")
                  /\ UNCHANGED <<reports, observed, idx>>
            [] out = "ping raises" ->
                  /\ netops' = netops \o <<<<idx, "websocket.create_connection">>,
                                           <<idx, "ws.ping">>>>
                  /\ Raise("WebSocketConnectionClosedException")
                  /\ UNCHANGED <<reports, observed, idx>>
            [] OTHER ->
                  /\ netops' = netops \o <<<<idx, "websocket.create_connection">>,
                                           <<idx, "ws.ping">>>>
                  /\ report(out, Str("websocket connected"), idx)
                  /\ Observe(out)
                  /\ idx' = idx + 1
                  /\ UNCHANGED <<pc, raised>>
    /\ UNCHANGED <<config, results, plugins, Plugin_plugins, sys_modules, socket_funcs,
                   caller, returned, invoked, runStart, script, searched, lookup>>

\* check_all, the branch "else"
check_invalid_scheme ==
    /\ AtCheck("invalid")
    /\ report("False", Str("invalid scheme"), idx)
    /\ Observe(None)
    /\ idx' = idx + 1
    /\ UNCHANGED <<config, results, plugins, Plugin_plugins, sys_modules, socket_funcs,
                   pc, caller, raised, returned, netops, invoked, runStart, script,
                   searched, lookup>>

\* the end of the loop of check_all
check_all ==
    /\ pc = "check_all"
    /\ idx > Len(config.checks)
    /\ pc' = After("check_all")
    /\ UNCHANGED <<config, reports, results, plugins, Plugin_plugins, sys_modules,
                   socket_funcs, caller, idx, raised, returned, netops, invoked,
                   runStart, dispatched, script, observed, searched, lookup>>

\* the last statement of check(): return self.results
check_return ==
    /\ pc = "return"
    /\ returned' = [set |-> TRUE, val |-> results]
    /\ pc' = "idle"
    /\ UNCHANGED <<config, reports, results, plugins, Plugin_plugins, sys_modules,
                   socket_funcs, caller, idx, raised, netops, invoked, runStart,
                   dispatched, script, observed, searched, lookup>>

Next ==
    \/ call
    \/ setup_dns
    \/ load_plugin
    \/ load_plugins
    \/ check_plugin
    \/ check_http
    \/ check_ws
    \/ check_invalid_scheme
    \/ check_all
    \/ check_return

Spec == Init /\ [][Next]_vars

-----------------------------------------------------------------------------
(* The resolver on its own: any dns_map, any number of installs, any lookup *)

InitDns ==
    /\ script \in {[k \in 1..n |-> "setup_dns"] : n \in 0..MaxInstalls}
    /\ config \in {Config(d, <<>>, <<>>) : d \in DnsMaps}
    /\ InitChecker

\* a name is resolved through the socket function, as the network client does
gethostbyname ==
    /\ pc = "idle"
    /\ \E host \in Hostnames :
          lookup' = [installs |-> Len(socket_funcs), host |-> host,
                     addr |-> new_func(socket_funcs, host)]
    /\ UNCHANGED <<config, reports, results, plugins, Plugin_plugins, sys_modules,
                   socket_funcs, pc, caller, idx, raised, returned, netops, invoked,
                   runStart, dispatched, script, observed, searched>>

NextDns == call \/ setup_dns \/ gethostbyname

SpecDns == InitDns /\ [][NextDns]_vars

-----------------------------------------------------------------------------
(* Properties *)

N == Len(config.checks)

\* the reports appended by the call that ran last
RunReports == SubSeq(reports, runStart + 1, Len(reports))

\* the exceptions of the plugin load phase
LoadErrors == {"FileNotFoundError"}

\* the last call ran the checks (phase 3) with the plugins loaded, and has ended
RunEnded ==
    /\ pc = "idle"
    /\ caller \in {"check", "check_all"}
    /\ plugins = "registry"
    /\ raised \notin LoadErrors

\* check k of the configuration was dispatched by the call that ran last
Dispatched(k) == caller \in {"check", "check_all"} /\ k <= dispatched

\* the positions in reports of the reports of check k
ReportsOf(k) == {r \in 1..Len(reports) : reports[r].check = k}

\* the network operations performed for check k
NetopsOf(k) == {n \in 1..Len(netops) : netops[n][1] = k}

\* C1: a run over N check descriptors leaves exactly N reports, the i-th
\* report being the report of the i-th descriptor, whatever each check did.
C1_OneReportPerCheck ==
    RunEnded =>
        /\ Len(RunReports) = N
        /\ \A k \in 1..Len(RunReports) : RunReports[k].check = k

\* C2: an exception in the dispatch or handler of one check does not abort
\* the run: once the plugins are loaded every check is dispatched and no
\* exception leaves check_all.
C2_FailureIsolated ==
    RunEnded => dispatched = N /\ raised = None

\* C3: check() returns the reports appended during check_all, in order.
C3_CheckReturnsReports ==
    (pc = "idle" /\ caller = "check" /\ raised = None) =>
        returned.set /\ returned.val = RunReports

\* reports[r] is the report of an http(s) check whose request got a response
HttpResponded(r) ==
    /\ Route(config.checks[reports[r].check]) = "http"
    /\ observed[r].raise = None

StatusMatches(r) ==
    observed[r].status_code = config.checks[reports[r].check].expect_status

\* the pattern is a regular expression that compiles
Compiles(pattern) == \A t \in Bodies : re_search(pattern, t) /= "raise"

\* C4 (as claimed): for an http(s) check that got a response, a status other
\* than expect_status gives ok = false, "http(s) status", and no evaluation of
\* expect_contains; a matching status with expect_contains not set gives
\* ok = true, "http(s) status"; a matching status with expect_contains set
\* gives "http(s) text contains" and ok exactly when the pattern matches.
C4_HttpRule_Claimed ==
    \A r \in 1..Len(reports) :
        HttpResponded(r) =>
            LET g == config.checks[reports[r].check]
                rp == reports[r]
            IN  /\ ~StatusMatches(r) =>
                      /\ ~rp.ok
                      /\ rp.msg = Str("http(s) status")
                      /\ rp.check \notin searched
                /\ (StatusMatches(r) /\ g.expect_contains = None) =>
                      rp.ok /\ rp.msg = Str("http(s) status")
                /\ (StatusMatches(r) /\ g.expect_contains /= None) =>
                      /\ rp.msg = Str("http(s) text contains")
                      /\ rp.ok <=> (re_search(g.expect_contains, observed[r].text) = "Match")

\* C4 (amended): as claimed, with "set" read as Python reads it: an empty
\* expect_contains counts as not set, and the third case is for a non-empty
\* pattern that compiles.
C4_HttpRule ==
    \A r \in 1..Len(reports) :
        HttpResponded(r) =>
            LET g == config.checks[reports[r].check]
                rp == reports[r]
            IN  /\ ~StatusMatches(r) =>
                      /\ ~rp.ok
                      /\ rp.msg = Str("http(s) status")
                      /\ rp.check \notin searched
                /\ (StatusMatches(r) /\ g.expect_contains \in {None, ""}) =>
                      rp.ok /\ rp.msg = Str("http(s) status")
                /\ (StatusMatches(r) /\ g.expect_contains \notin {None, ""}
                        /\ Compiles(g.expect_contains)) =>
                      /\ rp.msg = Str("http(s) text contains")
                      /\ rp.ok <=> (re_search(g.expect_contains, observed[r].text) = "Match")

\* C4 witness: an http(s) check with a pattern got the expected status and a
\* body that matches, and one whose status differs was reported
C4_Witness ==
    /\ \E r \in 1..Len(reports) :
          /\ HttpResponded(r) /\ StatusMatches(r)
          /\ reports[r].msg = Str("http(s) text contains") /\ reports[r].ok
    /\ \E r \in 1..Len(reports) :
          /\ HttpResponded(r) /\ ~StatusMatches(r)
          /\ StrTruthy(config.checks[reports[r].check].expect_contains)

\* C5: an exception raised while an http(s) check issues its request or
\* evaluates the response becomes exactly one report, ok = false, with the
\* repr of the exception as message, and does not leave check_all.
C5_HttpExceptionReported ==
    /\ \A r \in 1..Len(reports) :
          Route(config.checks[reports[r].check]) = "http" =>
              LET g == config.checks[reports[r].check]
              IN  /\ observed[r].raise /= None =>
                        ~reports[r].ok /\ reports[r].msg = Str(Repr(observed[r].raise))
                  /\ (/\ observed[r].raise = None /\ StatusMatches(r)
                      /\ StrTruthy(g.expect_contains)
                      /\ ~Compiles(g.expect_contains)) =>
                        ~reports[r].ok /\ reports[r].msg = Str(Repr("re.error"))
    /\ \A k \in 1..N :
          (Route(config.checks[k]) = "http" /\ Dispatched(k)) =>
              /\ Cardinality(ReportsOf(k)) = 1
              /\ (dispatched = k => raised = None)

\* C5 witness: a request raised, and a response evaluation raised, and both
\* were reported
C5_Witness ==
    /\ \E r \in 1..Len(reports) :
          /\ Route(config.checks[reports[r].check]) = "http"
          /\ observed[r].raise = "ConnectionError"
          /\ reports[r].msg = Str(Repr("ConnectionError"))
    /\ \E r \in 1..Len(reports) :
          /\ HttpResponded(r)
          /\ reports[r].msg = Str(Repr("re.error"))

\* C6: a check without plugin routing whose scheme is none of http, https,
\* ws, wss gets exactly one report, ok = false, "invalid scheme"; no network
\* operation is made for it and no exception is raised.
C6_InvalidScheme ==
    \A k \in 1..N :
        LET g == config.checks[k]
        IN  (/\ ~StrTruthy(g.plugin)
             /\ urlparse_scheme(g.url) \notin {"http", "https", "ws", "wss"}
             /\ Dispatched(k)) =>
                /\ Cardinality(ReportsOf(k)) = 1
                /\ \A r \in ReportsOf(k) :
                      ~reports[r].ok /\ reports[r].msg = Str("invalid scheme")
                /\ NetopsOf(k) = {}
                /\ (dispatched = k => raised = None)

\* C6 witness: a check with an unsupported scheme has been dispatched
C6_Witness ==
    \E k \in 1..N :
        /\ urlparse_scheme(config.checks[k].url) = "ftp"
        /\ ~StrTruthy(config.checks[k].plugin)
        /\ Dispatched(k)
        /\ ReportsOf(k) /= {}

\* C7: a check whose plugin name is registered goes to that plugin whatever
\* its scheme: the check of the registered plugin is invoked with (url, args),
\* no built-in handler runs, and the report has the truthiness of the return
\* value as ok and the plugin's declared name as message.
C7_PluginRouting ==
    /\ \A v \in 1..Len(invoked) :
          LET g == config.checks[invoked[v].check]
          IN  /\ invoked[v].plugin = DictGet(self_plugins, g.plugin)
              /\ invoked[v].url = g.url /\ invoked[v].args = g.args
              /\ NetopsOf(invoked[v].check) = {}
    /\ \A r \in 1..Len(reports) :
          LET g == config.checks[reports[r].check]
          IN  Route(g) = "plugin" =>
                  /\ reports[r].ok = Bool(observed[r])
                  /\ reports[r].msg = Str(DictGet(self_plugins, g.plugin).cls)

\* a name that the code normalises to the same key as the dns_map key src
Variant(host, src) == Lower(RStrip(host)) = Lower(RStrip(src))

\* C8: after setup_dns ran, once or more, resolving a dns_map key in any
\* letter case, with or without trailing dot, gives the address of the name
\* it is mapped to, and other names resolve as before.
C8_DnsOverride ==
    lookup.installs >= 1 =>
        /\ \A e \in 1..Len(config.dns_map) :
              (/\ Variant(lookup.host, config.dns_map[e][1])
               /\ \A f \in 1..Len(config.dns_map) :
                     f /= e => ~Variant(config.dns_map[f][1], config.dns_map[e][1])) =>
                  lookup.addr = socket_gethostbyname(config.dns_map[e][2])
        /\ (\A e \in 1..Len(config.dns_map) : ~Variant(lookup.host, config.dns_map[e][1])) =>
              lookup.addr = socket_gethostbyname(lookup.host)

\* C9: the Checker never changes its Config: dns_map, checks, every field of
\* every check descriptor and plugin descriptor stay as they were.
C9_ConfigReadOnly == [][config' = config]_vars

\* loading p fails: the lib cannot be loaded, or registers nothing under p.name
LoadFails(p) == LibKind(p.lib) = "missing" \/ p.name \notin LibClasses(p.lib)

\* C10: when a plugin of the configuration fails to load (not found, or no
\* plugin registered under the configured name) check() aborts in the load
\* phase: no check is dispatched and no report appended; and no check is
\* dispatched before all plugins are loaded.
C10_LoadFailureFatal ==
    caller = "check" =>
        /\ (\E k \in 1..Len(config.plugins) : LoadFails(config.plugins[k])) =>
              /\ pc \notin {"check_all", "return"}
              /\ dispatched = 0 /\ reports = <<>>
              /\ (pc = "idle" => raised \in LoadErrors)
        /\ dispatched > 0 => plugins = "registry"

====
